---- MODULE Spec2Model ----
(***************************************************************************)
(* Model of the knowledge-ingestion pipeline of highlevel-backend:         *)
(*   S3Service.downloadFileContentFromUrl  (locator -> key -> content)     *)
(*   DocumentParserService                 (per-extension extraction)      *)
(*   EmbeddingService                      (embedding batch builder)       *)
(*   PineconeService                       (index handle, upsert)          *)
(*   KnowledgeIngestionService.processDocumentFromS3, in its two shapes:   *)
(*     - the string-based orchestrator (content passed in memory),         *)
(*     - the orchestrator that stages the object in a temporary file.      *)
(*                                                                         *)
(* Strings of the program are sequences of chunks (a chunk is a character  *)
(* or an indivisible piece of text), so that concatenation, trimming,      *)
(* stripping a leading slash and taking a basename are computed, not       *)
(* assumed.  Node.js runs one continuation at a time: an action is the     *)
(* code between two await points of one request.                           *)
(***************************************************************************)
EXTENDS Integers, Sequences, FiniteSets, TLC

\* ------------------------------------------------------------------ bounds
NumReqs == 2      \* ingestion requests in flight
MaxLen == 1       \* chunks in an object's content
MaxClock == 1     \* last value Date.now() takes
MaxBatch == 2     \* documents in a direct getEmbeddingsForDocuments call
MaxDocLen == 2    \* chunks in the content of a document of such a call
MaxDir == 2       \* entries in the directory given to processDirectory

VARIABLES
    app,          \* bootstrap: "init" | "listening" | "failed"
    indexHandle,  \* PineconeService.index is set
    index,        \* the vector index: id -> [values, metadata]
    req,          \* request-local state of each processDocumentFromS3 call
    clock,        \* Date.now()
    files,        \* os.tmpdir(): path -> content
    batch,        \* one direct call of getEmbeddingsForDocuments
    parse,        \* one document given to both entry points of the extractor
    dir,          \* one call of processDirectory
    loc,          \* one locator given to downloadFileContentFromUrl
    pinecone      \* what onModuleInit asked of the index service

vars == <<app, indexHandle, index, req, clock, files, batch, parse, dir, loc,
          pinecone>>

Reqs == 1..NumReqs

\* The calls of the orchestrator that stages a temporary file: a pair, since
\* every interference through the temporary directory is between the file of
\* one call and one other call that touches it.
TempReqs == {1, 2}

\* ----------------------------------------------------------------- strings
Whitespace == {" ", "\n"}
Chars == {" ", "x"}

Contents == UNION {[1..n -> Chars] : n \in 0..MaxLen}

RECURSIVE TrimStart(_)
TrimStart(s) ==
    IF s # <<>> /\ Head(s) \in Whitespace THEN TrimStart(Tail(s)) ELSE s

RECURSIVE TrimEnd(_)
TrimEnd(s) ==
    IF s # <<>> /\ s[Len(s)] \in Whitespace
    THEN TrimEnd(SubSeq(s, 1, Len(s) - 1))
    ELSE s

Trim(s) == TrimEnd(TrimStart(s))

\* !text || text.trim().length === 0
Blank(text) == Len(text) = 0 \/ Len(Trim(text)) = 0

\* an assignment of the added fields in place of a spread
Merge_Replace(m, extra) == extra

\* {...m, ...extra}
Merge(m, extra) ==
    [k \in DOMAIN m \cup DOMAIN extra |->
        IF k \in DOMAIN extra THEN extra[k] ELSE m[k]]

\* ------------------------------------------------------------------- paths
\* pathname.startsWith('/') ? pathname.substring(1) : pathname
StripSlash(p) == IF p # <<>> /\ Head(p) = "/" THEN Tail(p) ELSE p

RECURSIVE LastSlash(_)
LastSlash(p) ==
    IF p = <<>> THEN 0
    ELSE IF p[Len(p)] = "/" THEN Len(p)
    ELSE LastSlash(SubSeq(p, 1, Len(p) - 1))

\* path.basename: trailing slashes dropped, then what follows the last slash
RECURSIVE Basename(_)
Basename(p) ==
    IF p = <<>> THEN <<>>
    ELSE IF p[Len(p)] = "/" THEN Basename(SubSeq(p, 1, Len(p) - 1))
    ELSE SubSeq(p, LastSlash(p) + 1, Len(p))

\* The extension carried by a name's last chunk (path.extname).
ChunkExt(c) ==
    CASE c = "x.txt" -> ".txt"
      [] c = "x.TXT" -> ".TXT"
      [] c = "x.json" -> ".json"
      [] c = "x.pdf" -> ".pdf"
      [] c = "x.csv" -> ".csv"
      [] c = "x.bin" -> ".bin"
      [] OTHER -> ""

ExtName(name) == IF name = <<>> THEN "" ELSE ChunkExt(name[Len(name)])

ToLowerCase(e) == IF e = ".TXT" THEN ".txt" ELSE e

\* ---------------------------------------------------------------- locators
\* What new URL(s) yields: valid = FALSE when it throws.
MkUrl(protocol, hostname, pathname) ==
    [valid |-> TRUE, protocol |-> protocol, hostname |-> hostname,
     pathname |-> pathname]

NoUrl == [valid |-> FALSE, protocol |-> "", hostname |-> <<>>, pathname |-> <<>>]

\* The locators requests arrive with.
Urls ==
    { MkUrl("s3:", <<"bkt">>, <<"/", "a", "/", "x.txt">>),
      MkUrl("https:", <<"cdn", "example", "com">>, <<"/", "x.pdf">>),
      MkUrl("s3:", <<"bkt">>, <<>>),
      MkUrl("https:", <<"cdn", "example", "com">>, <<"/">>),
      NoUrl }

\* The locators the requests staging a temporary file arrive with: two
\* objects of one file name, and a type parseDocument does not support.
TempUrls ==
    { MkUrl("s3:", <<"bkt">>, <<"/", "a", "/", "x.txt">>),
      MkUrl("https:", <<"bkt", "s3", "amazonaws", "com">>, <<"/", "b", "/", "x.txt">>),
      MkUrl("https:", <<"cdn", "example", "com">>, <<"/", "x.bin">>),
      MkUrl("s3:", <<"bkt">>, <<>>) }

\* hostname.endsWith('.s3.amazonaws.com')
EndsWithS3(h) ==
    Len(h) >= 4 /\ SubSeq(h, Len(h) - 2, Len(h)) = <<"s3", "amazonaws", "com">>

\* hostname.includes('.s3-website')
IncludesS3Website(h) ==
    \E k \in 2..Len(h) : h[k] \in {"s3-website", "s3-website-us-east-1"}

ErrInvalidUrl == "TypeError: Invalid URL"
ErrNoKey == "Could not determine S3 key from URL."
ErrS3 == "S3 getObject error"
ErrEmptyBody == "S3 object Body is empty"
ErrEmptyDocument == "Parsed content and metadata are empty."
ErrEmbeddingFailed == "Failed to generate embeddings for document"
ErrProvider == "embedding provider error"
ErrUpsert == "index upsert error"
ErrUnsupported == "Unsupported file type"
ErrJson == "SyntaxError: JSON.parse"
ErrWrite == "writeFile error"
ErrRead == "readFile error"
ErrUnlink == "unlink error"

\* A resolution that gives up on a host it does not recognise.
ResolveKey_NoFallback(u) ==
    IF ~u.valid THEN [threw |-> TRUE, err |-> ErrInvalidUrl, key |-> <<>>]
    ELSE LET key ==
                 IF EndsWithS3(u.hostname) \/ IncludesS3Website(u.hostname)
                 THEN StripSlash(u.pathname)
                 ELSE IF u.protocol = "s3:"
                 THEN StripSlash(u.pathname)
                 ELSE <<>>
         IN  IF key = <<>>
             THEN [threw |-> TRUE, err |-> ErrNoKey, key |-> <<>>]
             ELSE [threw |-> FALSE, err |-> "", key |-> key]

\* A resolution without the check for an empty key.
ResolveKey_NoKeyCheck(u) ==
    IF ~u.valid THEN [threw |-> TRUE, err |-> ErrInvalidUrl, key |-> <<>>]
    ELSE [threw |-> FALSE, err |-> "", key |-> StripSlash(u.pathname)]

\* S3Service.downloadFileContentFromUrl, up to the key.
ResolveKey(u) ==
    IF ~u.valid THEN [threw |-> TRUE, err |-> ErrInvalidUrl, key |-> <<>>]
    ELSE LET key ==
                 IF EndsWithS3(u.hostname) \/ IncludesS3Website(u.hostname)
                 THEN StripSlash(u.pathname)
                 ELSE IF u.protocol = "s3:"
                 THEN StripSlash(u.pathname)
                 ELSE StripSlash(u.pathname)
         IN  IF key = <<>>
             THEN [threw |-> TRUE, err |-> ErrNoKey, key |-> <<>>]
             ELSE [threw |-> FALSE, err |-> "", key |-> key]

\* --------------------------------------------------------------- extractor
\* What the parsing libraries (pdf-parse, papaparse) hand back; both are
\* outside the repository, so every outcome they can produce is allowed.
LibResult(ok, text, rows, errors, message) ==
    [ok |-> ok, text |-> text, numpages |-> 1, info |-> "info", rows |-> rows,
     fields |-> <<"a">>, delimiter |-> ",", errors |-> errors,
     message |-> message]

NoLib == LibResult(TRUE, <<>>, <<>>, <<>>, <<>>)

PdfOutcomes ==
    { LibResult(TRUE, t, <<>>, <<>>, <<>>) : t \in {<<>>, <<"x">>} }
        \cup { LibResult(FALSE, <<>>, <<>>, <<>>, <<"bad XRef">>) }

PapaOutcomes(content) ==
    IF content = <<>>
    THEN { LibResult(TRUE, <<>>, <<>>, <<"UndetectableDelimiter">>, <<>>) }
    ELSE { LibResult(TRUE, <<>>, <<>>, <<>>, <<>>),
           LibResult(TRUE, <<>>, <<[k |-> "a", v |-> "1"]>>, <<>>, <<>>),
           LibResult(TRUE, <<>>, <<[k |-> "a", v |-> "1"]>>, <<"TooFewFields">>, <<>>),
           LibResult(FALSE, <<>>, <<>>, <<>>, <<"papa failure">>) }

LibOutcomes(ext, content) ==
    CASE ext = ".pdf" -> PdfOutcomes
      [] ext = ".csv" -> PapaOutcomes(content)
      [] OTHER -> {NoLib}

\* JSON.stringify(row) of one parsed CSV row
StringifyRow(row) == <<"{", row.k, ":", row.v, "}">>

\* csvData.data.map((row) => JSON.stringify(row)).join('\n')
RECURSIVE JoinRows(_)
JoinRows(rows) ==
    IF rows = <<>> THEN <<>>
    ELSE IF Len(rows) = 1 THEN StringifyRow(rows[1])
    ELSE StringifyRow(rows[1]) \o <<"\n">> \o JoinRows(Tail(rows))

Digits == {"1"}

\* JSON.parse succeeds: here, on a number with JSON whitespace around it.
JsonValid(content) ==
    LET t == Trim(content)
    IN  t # <<>> /\ \A k \in 1..Len(t) : t[k] \in Digits

\* JSON.stringify(JSON.parse(content)) of a valid content
JsonRoundTrip(content) == Trim(content)

CsvMetadata(base, lib) ==
    LET m == Merge(base, [rowCount |-> Len(lib.rows), fields |-> lib.fields,
                          delimiter |-> lib.delimiter])
    IN  IF Len(lib.errors) > 0
        THEN Merge(m, [parseErrors |-> lib.errors])
        ELSE m

Parsed(content, metadata) ==
    [threw |-> FALSE, err |-> "", content |-> content, metadata |-> metadata]

ParseThrew(err) ==
    [threw |-> TRUE, err |-> err, content |-> <<>>, metadata |-> <<>>]

\* parseContentFromString whose .pdf catch block rethrows
ParseContentFromString_PdfRethrow(content, fileName, lib) ==
    LET fileExtension == ToLowerCase(ExtName(fileName))
        metadata == [source |-> fileName]
    IN  CASE fileExtension = ".pdf" ->
                IF lib.ok
                THEN Parsed(lib.text,
                            Merge(metadata, [pageCount |-> lib.numpages,
                                             info |-> lib.info]))
                ELSE ParseThrew(lib.message)
          [] fileExtension = ".csv" ->
                IF lib.ok
                THEN Parsed(JoinRows(lib.rows), CsvMetadata(metadata, lib))
                ELSE Parsed(<<"Failed to parse CSV content. ", "Error", ": ">>
                                \o lib.message, metadata)
          [] fileExtension = ".txt" -> Parsed(content, metadata)
          [] fileExtension = ".json" ->
                IF JsonValid(content)
                THEN Parsed(JsonRoundTrip(content), metadata)
                ELSE Parsed(content, metadata)
          [] OTHER -> Parsed(content, metadata)

\* parseContentFromString whose .json case has no try/catch
ParseContentFromString_JsonThrows(content, fileName, lib) ==
    LET fileExtension == ToLowerCase(ExtName(fileName))
        metadata == [source |-> fileName]
    IN  CASE fileExtension = ".pdf" ->
                IF lib.ok
                THEN Parsed(lib.text,
                            Merge(metadata, [pageCount |-> lib.numpages,
                                             info |-> lib.info]))
                ELSE Parsed(<<"Failed to parse PDF content. ", "Error", ": ">>
                                \o lib.message, metadata)
          [] fileExtension = ".csv" ->
                IF lib.ok
                THEN Parsed(JoinRows(lib.rows), CsvMetadata(metadata, lib))
                ELSE Parsed(<<"Failed to parse CSV content. ", "Error", ": ">>
                                \o lib.message, metadata)
          [] fileExtension = ".txt" -> Parsed(content, metadata)
          [] fileExtension = ".json" ->
                IF JsonValid(content)
                THEN Parsed(JsonRoundTrip(content), metadata)
                ELSE ParseThrew(ErrJson)
          [] OTHER -> Parsed(content, metadata)

\* DocumentParserService.parseContentFromString
ParseContentFromString(content, fileName, lib) ==
    LET fileExtension == ToLowerCase(ExtName(fileName))
        metadata == [source |-> fileName]
    IN  CASE fileExtension = ".pdf" ->
                IF lib.ok
                THEN Parsed(lib.text,
                            Merge(metadata, [pageCount |-> lib.numpages,
                                             info |-> lib.info]))
                ELSE Parsed(<<"Failed to parse PDF content. ", "Error", ": ">>
                                \o lib.message, metadata)
          [] fileExtension = ".csv" ->
                IF lib.ok
                THEN Parsed(JoinRows(lib.rows), CsvMetadata(metadata, lib))
                ELSE Parsed(<<"Failed to parse CSV content. ", "Error", ": ">>
                                \o lib.message, metadata)
          [] fileExtension = ".txt" -> Parsed(content, metadata)
          [] fileExtension = ".json" ->
                IF JsonValid(content)
                THEN Parsed(JsonRoundTrip(content), metadata)
                ELSE Parsed(content, metadata)
          [] OTHER -> Parsed(content, metadata)

\* parseDocument whose default case degrades to the raw content
ParseDocument_SoftDefault(fileBuffer, filePath, lib) ==
    LET fileExtension == ToLowerCase(ExtName(filePath))
        fileName == Basename(filePath)
        metadata == [source |-> fileName]
    IN  CASE fileExtension = ".pdf" ->
                IF lib.ok
                THEN Parsed(lib.text,
                            Merge(metadata, [pageCount |-> lib.numpages,
                                             info |-> lib.info]))
                ELSE Parsed(<<"Failed to parse PDF file. ", "Error", ": ">>
                                \o lib.message, metadata)
          [] fileExtension = ".csv" ->
                IF lib.ok
                THEN Parsed(JoinRows(lib.rows), CsvMetadata(metadata, lib))
                ELSE Parsed(<<"Failed to parse CSV file. ", "Error", ": ">>
                                \o lib.message, metadata)
          [] fileExtension = ".txt" -> Parsed(fileBuffer, metadata)
          [] fileExtension = ".json" ->
                IF JsonValid(fileBuffer)
                THEN Parsed(JsonRoundTrip(fileBuffer), metadata)
                ELSE ParseThrew(ErrJson)
          [] OTHER -> Parsed(fileBuffer, metadata)

\* DocumentParserService.parseDocument, given the bytes readFile returned
ParseDocument(fileBuffer, filePath, lib) ==
    LET fileExtension == ToLowerCase(ExtName(filePath))
        fileName == Basename(filePath)
        metadata == [source |-> fileName]
    IN  CASE fileExtension = ".pdf" ->
                IF lib.ok
                THEN Parsed(lib.text,
                            Merge(metadata, [pageCount |-> lib.numpages,
                                             info |-> lib.info]))
                ELSE Parsed(<<"Failed to parse PDF file. ", "Error", ": ">>
                                \o lib.message, metadata)
          [] fileExtension = ".csv" ->
                IF lib.ok
                THEN Parsed(JoinRows(lib.rows), CsvMetadata(metadata, lib))
                ELSE Parsed(<<"Failed to parse CSV file. ", "Error", ": ">>
                                \o lib.message, metadata)
          [] fileExtension = ".txt" -> Parsed(fileBuffer, metadata)
          [] fileExtension = ".json" ->
                IF JsonValid(fileBuffer)
                THEN Parsed(JsonRoundTrip(fileBuffer), metadata)
                ELSE ParseThrew(ErrJson)
          [] OTHER -> ParseThrew(ErrUnsupported)

\* --------------------------------------------------------------- embedding
placeholderDimension == 1536

ProviderOutcomes == {"ok", "fail"}

\* getEmbedding reaches the provider only for text that is not blank.
CallsProvider(text) == ~Blank(text)

\* getEmbedding testing !text only, without text.trim()
GetEmbedding_NoTrim(text, provider) ==
    IF Len(text) = 0 THEN [threw |-> FALSE, values |-> 0]
    ELSE IF provider = "ok"
    THEN [threw |-> FALSE, values |-> placeholderDimension]
    ELSE [threw |-> TRUE, values |-> 0]

\* EmbeddingService.getEmbedding; a vector is modelled by its length.
GetEmbedding(text, provider) ==
    IF Blank(text) THEN [threw |-> FALSE, values |-> 0]
    ELSE IF provider = "ok"
    THEN [threw |-> FALSE, values |-> placeholderDimension]
    ELSE [threw |-> TRUE, values |-> 0]

\* the loop body pushing a record whatever the length of the embedding
EmbedLoopBody_KeepEmpty(embeddedDocs, doc, provider) ==
    LET embedding == GetEmbedding(doc.content, provider)
    IN  [threw |-> embedding.threw,
         embeddedDocs |->
            IF ~embedding.threw
            THEN Append(embeddedDocs,
                        [id |-> doc.id, values |-> embedding.values,
                         metadata |-> doc.metadata])
            ELSE embeddedDocs]

\* One turn of the loop of getEmbeddingsForDocuments.
EmbedLoopBody(embeddedDocs, doc, provider) ==
    LET embedding == GetEmbedding(doc.content, provider)
    IN  [threw |-> embedding.threw,
         embeddedDocs |->
            IF ~embedding.threw /\ embedding.values > 0
            THEN Append(embeddedDocs,
                        [id |-> doc.id, values |-> embedding.values,
                         metadata |-> doc.metadata])
            ELSE embeddedDocs]

\* ------------------------------------------------------------ vector index
\* index.upsert(vectors): insert or replace by id
Upserted(ix, vectors) ==
    LET ids == {vectors[k].id : k \in 1..Len(vectors)}
        last(id) == CHOOSE k \in 1..Len(vectors) :
                        /\ vectors[k].id = id
                        /\ \A j \in (k + 1)..Len(vectors) : vectors[j].id # id
    IN  [id \in DOMAIN ix \cup ids |->
            IF id \in ids
            THEN [values |-> vectors[last(id)].values,
                  metadata |-> vectors[last(id)].metadata]
            ELSE ix[id]]

\* PineconeService.upsertVectors issues index.upsert only with a handle.
UpsertIssued(handle) == handle

\* upsertVectors with a catch that logs and does not rethrow
UpsertVectors_Swallow(issued, indexOk) == "returned"

\* PineconeService.upsertVectors: how the call ends, given whether index.upsert
\* was issued and whether the index accepted the write.
UpsertVectors(issued, indexOk) ==
    IF ~issued THEN "returned"
    ELSE IF indexOk THEN "returned"
    ELSE "threw"

\* pineconeConfig.apiKey: process.env.PINECONE_API_KEY || 'YOUR_API_KEY'
PineconeEnv == {"", "pc-key"}

\* the configuration without the 'YOUR_API_KEY' default
ApiKey_NoDefault(env) == env

ApiKey(env) == IF env # "" THEN env ELSE "YOUR_API_KEY"

indexDimension == 1536

NoPinecone ==
    [described |-> "", createRequested |-> FALSE, createArgs |-> <<>>,
     created |-> FALSE, raised |-> FALSE]

\* onModuleInit without the assignment of this.index after an index is created
IndexCreated_NoHandle(p) ==
    [app |-> "listening", indexHandle |-> FALSE,
     pinecone |-> [p EXCEPT !.created = TRUE]]

\* onModuleInit from the return of createIndex to its end.
IndexCreated(p) ==
    [app |-> "listening", indexHandle |-> TRUE,
     pinecone |-> [p EXCEPT !.created = TRUE]]

\* PineconeService.onModuleInit up to the await of describeIndex; the
\* application listens once onModuleInit has returned.
OnModuleInit(env) ==
    /\ app = "init"
    /\ app' = IF ApiKey(env) = "" THEN "listening" ELSE "describing"
    /\ UNCHANGED <<indexHandle, index, req, clock, files, batch, parse, dir, loc,
                   pinecone>>

\* describeIndex returns or throws; on a throw createIndex is awaited.
DescribeIndexReturns(ok) ==
    /\ app = "describing"
    /\ IF ok
       THEN /\ app' = "listening"
            /\ indexHandle' = TRUE
            /\ pinecone' = [pinecone EXCEPT !.described = "ok"]
       ELSE /\ app' = "creating"
            /\ indexHandle' = indexHandle
            /\ pinecone' = [pinecone EXCEPT
                               !.described = "failed",
                               !.createRequested = TRUE,
                               !.createArgs = [dimension |-> indexDimension,
                                               metric |-> "cosine"]]
    /\ UNCHANGED <<index, req, clock, files, batch, parse, dir, loc>>

\* createIndex returns, or throws and onModuleInit rethrows: bootstrap fails.
CreateIndexReturns(ok) ==
    /\ app = "creating"
    /\ IF ok
       THEN /\ app' = IndexCreated(pinecone).app
            /\ indexHandle' = IndexCreated(pinecone).indexHandle
            /\ pinecone' = IndexCreated(pinecone).pinecone
       ELSE /\ app' = "failed"
            /\ indexHandle' = indexHandle
            /\ pinecone' = [pinecone EXCEPT !.raised = TRUE]
    /\ UNCHANGED <<index, req, clock, files, batch, parse, dir, loc>>

StartupNext ==
    \/ \E env \in PineconeEnv : OnModuleInit(env)
    \/ \E ok \in BOOLEAN : DescribeIndexReturns(ok)
    \/ \E ok \in BOOLEAN : CreateIndexReturns(ok)

\* ------------------------------------------------------------ orchestrator
\* ------------------------------------------------------------- controller
MsgStarted == "Document processing started."
MsgFailed == "Failed to start document processing."

NoResponse == [raised |-> FALSE, message |-> ""]

\* processS3Document with a catch that logs and rethrows
ProcessS3Document_Rethrow(result) ==
    IF result.threw
    THEN [raised |-> TRUE, message |-> ""]
    ELSE [raised |-> FALSE, message |-> MsgStarted,
          documentId |-> result.documentId]

\* KnowledgeIngestionController.processS3Document from the end of
\* processDocumentFromS3: the body answered to the request.
ProcessS3Document(result) ==
    IF result.threw
    THEN [raised |-> FALSE, message |-> MsgFailed]
    ELSE [raised |-> FALSE, message |-> MsgStarted,
          documentId |-> result.documentId]

Threw == [threw |-> TRUE, documentId |-> <<>>]

Returned(documentId) == [threw |-> FALSE, documentId |-> documentId]

IdleReq ==
    [pc |-> "idle", url |-> NoUrl, key |-> <<>>, fileName |-> <<>>,
     raw |-> <<>>, rawEmpty |-> FALSE, content |-> <<>>, metadata |-> <<>>,
     embedReturned |-> FALSE, vectorsToUpsert |-> <<>>, sent |-> <<>>,
     issued |-> FALSE, indexOk |-> TRUE, upsertOutcome |-> "", err |-> "", documentId |-> <<>>,
     calls |-> <<>>, tempFilePath |-> <<>>, unlinked |-> <<>>,
     pending |-> "", pendingErr |-> "", unlinkOk |-> TRUE,
     response |-> NoResponse]

IdleBatch ==
    [state |-> "idle", docs |-> <<>>, next |-> 1, embeddedDocs |-> <<>>,
     calls |-> <<>>, failedAt |-> 0, result |-> <<>>, err |-> ""]

IdleParse ==
    [state |-> "idle", fileName |-> <<>>, content |-> <<>>,
     viaString |-> <<>>, viaPath |-> <<>>]

IdleDir ==
    [state |-> "idle", directoryPath |-> <<>>, listing |-> <<>>, next |-> 1,
     processedDocs |-> <<>>, turns |-> <<>>, result |-> <<>>, err |-> ""]

IdleLoc == [state |-> "idle", inline |-> FALSE, url |-> NoUrl, key |-> <<>>,
            content |-> <<>>, originalFileName |-> <<>>, err |-> "",
            reads |-> 0]

S3Outcomes ==
    { [kind |-> "error", body |-> <<>>], [kind |-> "nobody", body |-> <<>>] }
        \cup { [kind |-> "body", body |-> c] : c \in Contents }

AllLibOutcomes ==
    PdfOutcomes \cup PapaOutcomes(<<>>) \cup PapaOutcomes(<<"x">>) \cup {NoLib}

\* Requests are numbered in their order of arrival.
MayStart(i) ==
    /\ app = "listening"
    /\ req[i].pc = "idle"
    /\ IF i = 1 THEN TRUE ELSE req[i - 1].pc # "idle"

\* processDocumentFromS3 rethrows to the controller, which answers.
Failed(r, e) ==
    [r EXCEPT !.pc = "failed", !.err = e, !.response = ProcessS3Document(Threw)]

\* documentForEmbedding keyed by the file name instead of the storage key
DocumentForEmbedding_NameId(documentId, content, metadata, s3ObjectUrl, originalFileName) ==
    [id |-> originalFileName, content |-> content,
     metadata |-> Merge(metadata, [s3_url |-> s3ObjectUrl,
                                   original_filename |-> originalFileName])]

\* documentForEmbedding of generateAndStoreEmbeddings
DocumentForEmbedding(documentId, content, metadata, s3ObjectUrl, originalFileName) ==
    [id |-> documentId, content |-> content,
     metadata |-> Merge(metadata, [s3_url |-> s3ObjectUrl,
                                   original_filename |-> originalFileName])]

DocOf(r) == DocumentForEmbedding(r.key, r.content, r.metadata, r.url, r.fileName)

\* processDocumentFromS3 up to the await of s3.getObject
StartDownload(r, u) ==
    LET k == ResolveKey(u)
    IN  IF k.threw
        THEN Failed([r EXCEPT !.url = u], k.err)
        ELSE [r EXCEPT !.pc = "retrieving", !.url = u, !.key = k.key,
                       !.calls = Append(@, "getObject")]

ProcessDocumentFromS3(i, u) ==
    /\ MayStart(i)
    /\ req' = [req EXCEPT ![i] = StartDownload(req[i], u)]
    /\ UNCHANGED <<app, indexHandle, index, clock, files, batch, parse, dir, loc, pinecone>>

\* getFileContentAsString and the rest of downloadFileContentFromUrl, then
\* parseDocumentContent is entered
AfterDownload(r, o) ==
    CASE o.kind = "error" -> Failed(r, ErrS3)
      [] o.kind = "nobody" -> Failed(r, ErrEmptyBody)
      [] OTHER -> [r EXCEPT !.pc = "extracting", !.raw = o.body,
                            !.rawEmpty = (o.body = <<>>),
                            !.fileName = Basename(r.key),
                            !.calls = Append(@, "extract")]

GetObjectReturns(i, o) ==
    /\ req[i].pc = "retrieving"
    /\ req' = [req EXCEPT ![i] = AfterDownload(req[i], o)]
    /\ UNCHANGED <<app, indexHandle, index, clock, files, batch, parse, dir, loc, pinecone>>

\* generateAndStoreEmbeddings up to the await of getEmbeddingsForDocuments
StartEmbedding(r, p) ==
    IF p.threw THEN Failed([r EXCEPT !.raw = <<>>], p.err)
    ELSE [r EXCEPT !.pc = "embedding", !.raw = <<>>, !.content = p.content,
                   !.metadata = p.metadata,
                   !.calls = @ \o <<"embedBatch">> \o
                       (IF CallsProvider(p.content) THEN <<"provider">> ELSE <<>>)]

ParseReturns(i, lib) ==
    /\ req[i].pc = "extracting"
    /\ lib \in LibOutcomes(ToLowerCase(ExtName(Basename(req[i].key))), req[i].raw)
    /\ req' = [req EXCEPT ![i] =
                 StartEmbedding(@, ParseContentFromString(@.raw, @.fileName, lib))]
    /\ UNCHANGED <<app, indexHandle, index, clock, files, batch, parse, dir, loc, pinecone>>

\* generateAndStoreEmbeddings without the check for zero records
StartUpsert_NoEmptyCheck(r, b, handle) ==
    IF b.threw THEN Failed(r, ErrProvider)
    ELSE [r EXCEPT !.pc = "upserting", !.embedReturned = TRUE,
                   !.vectorsToUpsert = b.embeddedDocs,
                   !.sent = b.embeddedDocs,
                   !.issued = UpsertIssued(handle),
                   !.calls = @ \o <<"upsertVectors">> \o
                       (IF UpsertIssued(handle) THEN <<"index.upsert">> ELSE <<>>)]

\* generateAndStoreEmbeddings with upsertVectors not awaited
StartUpsert_NoAwait(r, b, handle) ==
    IF b.threw THEN Failed(r, ErrProvider)
    ELSE IF Len(b.embeddedDocs) = 0
    THEN Failed([r EXCEPT !.embedReturned = TRUE,
                          !.vectorsToUpsert = b.embeddedDocs],
                ErrEmbeddingFailed)
    ELSE [r EXCEPT !.pc = "done", !.embedReturned = TRUE,
                   !.vectorsToUpsert = b.embeddedDocs,
                   !.sent = b.embeddedDocs,
                   !.issued = UpsertIssued(handle),
                   !.documentId = r.key,
                   !.calls = @ \o <<"upsertVectors">> \o
                       (IF UpsertIssued(handle) THEN <<"index.upsert">> ELSE <<>>)]

\* generateAndStoreEmbeddings from the batch's return to the await of
\* upsertVectors
StartUpsert(r, b, handle) ==
    IF b.threw THEN Failed(r, ErrProvider)
    ELSE IF Len(b.embeddedDocs) = 0
    THEN Failed([r EXCEPT !.embedReturned = TRUE,
                          !.vectorsToUpsert = b.embeddedDocs],
                ErrEmbeddingFailed)
    ELSE [r EXCEPT !.pc = "upserting", !.embedReturned = TRUE,
                   !.vectorsToUpsert = b.embeddedDocs,
                   !.sent = b.embeddedDocs,
                   !.issued = UpsertIssued(handle),
                   !.calls = @ \o <<"upsertVectors">> \o
                       (IF UpsertIssued(handle) THEN <<"index.upsert">> ELSE <<>>)]

EmbeddingsReturn(i, provider) ==
    /\ req[i].pc = "embedding"
    /\ IF CallsProvider(req[i].content) THEN TRUE ELSE provider = "ok"
    /\ req' = [req EXCEPT ![i] =
                 StartUpsert(@, EmbedLoopBody(<<>>, DocOf(@), provider), indexHandle)]
    /\ UNCHANGED <<app, indexHandle, index, clock, files, batch, parse, dir, loc, pinecone>>

\* the rest of generateAndStoreEmbeddings and of processDocumentFromS3
Finish(r, indexOk) ==
    LET out == UpsertVectors(r.issued, indexOk)
        s == [r EXCEPT !.indexOk = indexOk, !.upsertOutcome = out]
    IN  IF out = "returned"
        THEN [s EXCEPT !.pc = "done", !.documentId = r.key,
                       !.response = ProcessS3Document(Returned(r.key))]
        ELSE Failed(s, ErrUpsert)

UpsertReturns(i, indexOk) ==
    /\ req[i].pc = "upserting"
    /\ IF req[i].issued THEN TRUE ELSE indexOk
    /\ req' = [req EXCEPT ![i] = Finish(@, indexOk)]
    /\ index' = IF indexOk /\ req[i].issued
                THEN Upserted(index, req[i].sent)
                ELSE index
    /\ UNCHANGED <<app, indexHandle, clock, files, batch, parse, dir, loc, pinecone>>

Init ==
    /\ app = "init"
    /\ indexHandle = FALSE
    /\ index = <<>>
    /\ req = [i \in Reqs |-> IdleReq]
    /\ clock = 0
    /\ files = <<>>
    /\ batch = IdleBatch
    /\ parse = IdleParse
    /\ dir = IdleDir
    /\ loc = IdleLoc
    /\ pinecone = NoPinecone

Next ==
    \/ StartupNext
    \/ \E i \in Reqs, u \in Urls : ProcessDocumentFromS3(i, u)
    \/ \E i \in Reqs, o \in S3Outcomes : GetObjectReturns(i, o)
    \/ \E i \in Reqs, lib \in AllLibOutcomes : ParseReturns(i, lib)
    \/ \E i \in Reqs, p \in ProviderOutcomes : EmbeddingsReturn(i, p)
    \/ \E i \in Reqs, ok \in BOOLEAN : UpsertReturns(i, ok)

Spec == Init /\ [][Next]_vars

\* Requests naming one object by locators of several shapes, the same key
\* under another bucket name, and a second object of the same file name.
ReingestUrls ==
    { MkUrl("s3:", <<"bkt">>, <<"/", "a", "/", "x.txt">>),
      MkUrl("https:", <<"bkt", "s3", "amazonaws", "com">>, <<"/", "a", "/", "x.txt">>),
      MkUrl("s3:", <<"other">>, <<"/", "a", "/", "x.txt">>),
      MkUrl("s3:", <<"bkt">>, <<"/", "b", "/", "x.txt">>) }

\* What getObject answers these requests: an error, or the object's content,
\* which may have changed between two requests.
ReingestOutcomes ==
    { [kind |-> "error", body |-> <<>>],
      [kind |-> "body", body |-> <<"x">>],
      [kind |-> "body", body |-> <<"x", "x">>] }

ReingestNext ==
    \/ StartupNext
    \/ \E i \in Reqs, u \in ReingestUrls : ProcessDocumentFromS3(i, u)
    \/ \E i \in Reqs, o \in ReingestOutcomes : GetObjectReturns(i, o)
    \/ \E i \in Reqs, lib \in AllLibOutcomes : ParseReturns(i, lib)
    \/ \E i \in Reqs, p \in ProviderOutcomes : EmbeddingsReturn(i, p)
    \/ \E i \in Reqs, ok \in BOOLEAN : UpsertReturns(i, ok)

ReingestSpec == Init /\ [][ReingestNext]_vars

\* ------------------------------------- orchestrator staging a temporary file
\* The key, as processDocumentFromS3 parses it from the URL itself.
TempResolveKey(u) ==
    IF ~u.valid THEN [threw |-> TRUE, err |-> ErrInvalidUrl, key |-> <<>>]
    ELSE LET s3Key ==
                 IF EndsWithS3(u.hostname) \/ IncludesS3Website(u.hostname)
                 THEN StripSlash(u.pathname)
                 ELSE IF u.protocol = "s3:"
                 THEN StripSlash(u.pathname)
                 ELSE StripSlash(u.pathname)
         IN  IF s3Key = <<>>
             THEN [threw |-> TRUE, err |-> ErrNoKey, key |-> <<>>]
             ELSE [threw |-> FALSE, err |-> "", key |-> s3Key]

\* path.join(os.tmpdir(), `doc-${Date.now()}-${originalFileName}`)
TempFilePath(now, originalFileName) ==
    <<"/tmp", "/">> \o <<"doc-", ToString(now), "-">> \o originalFileName

\* How the call ends once the finally block is over.
Complete(r, kind, err) ==
    IF kind = "return"
    THEN [r EXCEPT !.pc = "done", !.documentId = r.key,
                   !.pending = kind, !.pendingErr = err,
                   !.response = ProcessS3Document(Returned(r.key))]
    ELSE [r EXCEPT !.pc = "failed", !.err = err,
                   !.pending = kind, !.pendingErr = err,
                   !.response = ProcessS3Document(Threw)]

\* Cleanup placed at the end of the try block: it runs on a return only.
EnterFinally_OnReturnOnly(r, kind, err) ==
    IF r.tempFilePath # <<>> /\ kind = "return"
    THEN [r EXCEPT !.pc = "unlinking", !.pending = kind, !.pendingErr = err,
                   !.unlinked = Append(@, r.tempFilePath)]
    ELSE Complete(r, kind, err)

\* The catch and finally blocks up to the await of fs.unlink: the try block
\* ended by a return or a throw.
EnterFinally(r, kind, err) ==
    IF r.tempFilePath # <<>>
    THEN [r EXCEPT !.pc = "unlinking", !.pending = kind, !.pendingErr = err,
                   !.unlinked = Append(@, r.tempFilePath)]
    ELSE Complete(r, kind, err)

\* A finally block whose unlink is not guarded by a try of its own.
FinallyOutcome_Unguarded(r, unlinkOk) ==
    IF unlinkOk
    THEN Complete([r EXCEPT !.unlinkOk = unlinkOk], r.pending, r.pendingErr)
    ELSE [r EXCEPT !.pc = "failed", !.err = ErrUnlink, !.unlinkOk = unlinkOk]

\* The finally block from the return of fs.unlink: a removal error is logged.
FinallyOutcome(r, unlinkOk) ==
    Complete([r EXCEPT !.unlinkOk = unlinkOk], r.pending, r.pendingErr)

TempStart(r, u) ==
    LET k == TempResolveKey(u)
    IN  IF k.threw
        THEN EnterFinally([r EXCEPT !.url = u], "throw", k.err)
        ELSE [r EXCEPT !.pc = "retrieving", !.url = u, !.key = k.key,
                       !.calls = Append(@, "getObject")]

TempProcessDocumentFromS3(i, u) ==
    /\ MayStart(i)
    /\ req' = [req EXCEPT ![i] = TempStart(req[i], u)]
    /\ UNCHANGED <<app, indexHandle, index, clock, files, batch, parse, dir, loc, pinecone>>

\* From the return of getObject to the await of fs.writeFile.
TempAfterDownload(r, o, now) ==
    CASE o.kind = "error" -> EnterFinally(r, "throw", ErrS3)
      [] o.kind = "nobody" -> EnterFinally(r, "throw", ErrEmptyBody)
      [] OTHER ->
            [r EXCEPT !.pc = "writing", !.raw = o.body,
                      !.rawEmpty = (o.body = <<>>),
                      !.fileName = Basename(r.key),
                      !.tempFilePath = TempFilePath(now, Basename(r.key)),
                      !.calls = Append(@, "writeFile")]

TempGetObjectReturns(i, o) ==
    /\ req[i].pc = "retrieving"
    /\ req' = [req EXCEPT ![i] = TempAfterDownload(req[i], o, clock)]
    /\ UNCHANGED <<app, indexHandle, index, clock, files, batch, parse, dir, loc, pinecone>>

\* From the return of fs.writeFile to the await of fs.readFile in parseDocument.
TempAfterWrite(r, ok) ==
    IF ok
    THEN [r EXCEPT !.pc = "reading", !.raw = <<>>,
                   !.calls = Append(@, "extract")]
    ELSE EnterFinally([r EXCEPT !.raw = <<>>], "throw", ErrWrite)

WriteFile(fs, path, data) ==
    [q \in DOMAIN fs \cup {path} |-> IF q = path THEN data ELSE fs[q]]

Unlink(fs, path) == [q \in DOMAIN fs \ {path} |-> fs[q]]

TempWriteReturns(i, ok) ==
    /\ req[i].pc = "writing"
    /\ req' = [req EXCEPT ![i] = TempAfterWrite(req[i], ok)]
    /\ files' = IF ok
                THEN WriteFile(files, req[i].tempFilePath, req[i].raw)
                ELSE files
    /\ UNCHANGED <<app, indexHandle, index, clock, batch, parse, dir, loc, pinecone>>

\* parseDocument from the return of fs.readFile, then processDocumentFromS3 up
\* to the await of getEmbeddingsForDocuments.
TempAfterParse(r, p) ==
    IF p.threw THEN EnterFinally(r, "throw", p.err)
    ELSE IF Blank(p.content) /\ DOMAIN p.metadata = {}
    THEN EnterFinally([r EXCEPT !.content = p.content, !.metadata = p.metadata],
                      "throw", ErrEmptyDocument)
    ELSE [r EXCEPT !.pc = "embedding", !.content = p.content,
                   !.metadata = p.metadata,
                   !.calls = @ \o <<"embedBatch">> \o
                       (IF CallsProvider(p.content) THEN <<"provider">> ELSE <<>>)]

ReadAndParse(fs, path, lib) ==
    IF path \in DOMAIN fs
    THEN ParseDocument(fs[path], path, lib)
    ELSE ParseThrew(ErrRead)

TempParseReturns(i, lib) ==
    /\ req[i].pc = "reading"
    /\ lib \in IF req[i].tempFilePath \in DOMAIN files
               THEN LibOutcomes(ToLowerCase(ExtName(req[i].tempFilePath)),
                                files[req[i].tempFilePath])
               ELSE {NoLib}
    /\ req' = [req EXCEPT ![i] =
                 TempAfterParse(@, ReadAndParse(files, @.tempFilePath, lib))]
    /\ UNCHANGED <<app, indexHandle, index, clock, files, batch, parse, dir, loc, pinecone>>

\* From the return of getEmbeddingsForDocuments to the await of upsertVectors.
TempStartUpsert(r, b, handle) ==
    IF b.threw THEN EnterFinally(r, "throw", ErrProvider)
    ELSE IF Len(b.embeddedDocs) = 0
    THEN EnterFinally([r EXCEPT !.embedReturned = TRUE,
                                !.vectorsToUpsert = b.embeddedDocs],
                      "throw", ErrEmbeddingFailed)
    ELSE [r EXCEPT !.pc = "upserting", !.embedReturned = TRUE,
                   !.vectorsToUpsert = b.embeddedDocs,
                   !.sent = b.embeddedDocs,
                   !.issued = UpsertIssued(handle),
                   !.calls = @ \o <<"upsertVectors">> \o
                       (IF UpsertIssued(handle) THEN <<"index.upsert">> ELSE <<>>)]

TempEmbeddingsReturn(i, provider) ==
    /\ req[i].pc = "embedding"
    /\ IF CallsProvider(req[i].content) THEN TRUE ELSE provider = "ok"
    /\ req' = [req EXCEPT ![i] =
                 TempStartUpsert(@, EmbedLoopBody(<<>>, DocOf(@), provider),
                                 indexHandle)]
    /\ UNCHANGED <<app, indexHandle, index, clock, files, batch, parse, dir, loc, pinecone>>

\* From the return of upsertVectors to the end of the try block.
TempAfterUpsert(r, indexOk) ==
    LET out == UpsertVectors(r.issued, indexOk)
        s == [r EXCEPT !.indexOk = indexOk, !.upsertOutcome = out]
    IN  IF out = "returned"
        THEN EnterFinally(s, "return", "")
        ELSE EnterFinally(s, "throw", ErrUpsert)

TempUpsertReturns(i, indexOk) ==
    /\ req[i].pc = "upserting"
    /\ IF req[i].issued THEN TRUE ELSE indexOk
    /\ req' = [req EXCEPT ![i] = TempAfterUpsert(@, indexOk)]
    /\ index' = IF indexOk /\ req[i].issued
                THEN Upserted(index, req[i].sent)
                ELSE index
    /\ UNCHANGED <<app, indexHandle, clock, files, batch, parse, dir, loc, pinecone>>

\* fs.unlink returns: it cannot succeed on a path that is not there.
TempUnlinkReturns(i, unlinkOk) ==
    /\ req[i].pc = "unlinking"
    /\ IF req[i].tempFilePath \in DOMAIN files THEN TRUE ELSE ~unlinkOk
    /\ req' = [req EXCEPT ![i] = FinallyOutcome(@, unlinkOk)]
    /\ files' = IF unlinkOk THEN Unlink(files, req[i].tempFilePath) ELSE files
    /\ UNCHANGED <<app, indexHandle, index, clock, batch, parse, dir, loc, pinecone>>

\* A millisecond passes.
Tick ==
    /\ clock < MaxClock
    /\ clock' = clock + 1
    /\ UNCHANGED <<app, indexHandle, index, req, files, batch, parse, dir, loc, pinecone>>

TempNext ==
    \/ StartupNext
    \/ Tick
    \/ \E i \in TempReqs, u \in TempUrls : TempProcessDocumentFromS3(i, u)
    \/ \E i \in TempReqs, o \in S3Outcomes : TempGetObjectReturns(i, o)
    \/ \E i \in TempReqs, ok \in BOOLEAN : TempWriteReturns(i, ok)
    \/ \E i \in TempReqs, lib \in AllLibOutcomes : TempParseReturns(i, lib)
    \/ \E i \in TempReqs, p \in ProviderOutcomes : TempEmbeddingsReturn(i, p)
    \/ \E i \in TempReqs, ok \in BOOLEAN : TempUpsertReturns(i, ok)
    \/ \E i \in TempReqs, ok \in BOOLEAN : TempUnlinkReturns(i, ok)

TempSpec == Init /\ [][TempNext]_vars

\* ------------------------------------------- a direct embedding batch call
DocContents == UNION {[1..n -> Chars] : n \in 0..MaxDocLen}

\* The k-th document of a batch: the caller gives every document its own id.
Doc(k, c) ==
    [id |-> <<"d", ToString(k)>>, content |-> c,
     metadata |-> [source |-> <<"d", ToString(k), ".txt">>]]

BatchInputs ==
    UNION { { [k \in 1..n |-> Doc(k, cs[k])] : cs \in [1..n -> DocContents] } :
              n \in 0..MaxBatch }

\* getEmbeddingsForDocuments(documents) is called.
GetEmbeddingsForDocuments(documents) ==
    /\ batch.state = "idle"
    /\ batch' = [batch EXCEPT !.state = "running", !.docs = documents]
    /\ UNCHANGED <<app, indexHandle, index, req, clock, files, parse, dir, loc, pinecone>>

\* A loop that logs a provider failure and goes on to the next document.
BatchAfter_SkipAndContinue(b, turn, called) ==
    [b EXCEPT !.next = @ + 1,
              !.embeddedDocs = turn.embeddedDocs,
              !.calls = IF called THEN Append(@, b.next) ELSE @,
              !.failedAt = IF turn.threw THEN b.next ELSE @]

\* The batch after one turn of the loop on documents[next].
BatchAfter(b, turn, called) ==
    IF turn.threw
    THEN [b EXCEPT !.state = "threw", !.err = ErrProvider,
                   !.calls = Append(@, b.next), !.failedAt = b.next]
    ELSE [b EXCEPT !.next = @ + 1,
                   !.embeddedDocs = turn.embeddedDocs,
                   !.calls = IF called THEN Append(@, b.next) ELSE @]

BatchTurn(provider) ==
    /\ batch.state = "running"
    /\ batch.next <= Len(batch.docs)
    /\ IF CallsProvider(batch.docs[batch.next].content)
       THEN TRUE
       ELSE provider = "ok"
    /\ batch' = BatchAfter(batch,
                           EmbedLoopBody(batch.embeddedDocs,
                                         batch.docs[batch.next], provider),
                           CallsProvider(batch.docs[batch.next].content))
    /\ UNCHANGED <<app, indexHandle, index, req, clock, files, parse, dir, loc, pinecone>>

\* return embeddedDocs
BatchReturn ==
    /\ batch.state = "running"
    /\ batch.next > Len(batch.docs)
    /\ batch' = [batch EXCEPT !.state = "returned", !.result = batch.embeddedDocs]
    /\ UNCHANGED <<app, indexHandle, index, req, clock, files, parse, dir, loc, pinecone>>

EmbedNext ==
    \/ \E documents \in BatchInputs : GetEmbeddingsForDocuments(documents)
    \/ \E p \in ProviderOutcomes : BatchTurn(p)
    \/ BatchReturn

EmbedSpec == Init /\ [][EmbedNext]_vars

\* ------------------------------------------------------- processDirectory
\* What fs.readdir lists: names are distinct; an entry is a regular file with
\* its content, or a subdirectory.
DirNames == {"x.txt", "x.json", "x.pdf", "x.csv", "x.bin"}

DirContents == {<<"x">>, <<"1">>}

DirEntries ==
    { [name |-> n, isFile |-> TRUE, content |-> c] :
        n \in DirNames, c \in DirContents }
        \cup { [name |-> "sub", isFile |-> FALSE, content |-> <<>>] }

Listings ==
    UNION { { l \in [1..n -> DirEntries] :
                \A j, k \in 1..n : j # k => l[j].name # l[k].name } :
            n \in 0..MaxDir }

DirectoryPath == <<"/", "docs">>

\* path.join(directoryPath, file)
PathJoin(directoryPath, file) == directoryPath \o <<"/", file>>

\* processDirectory(directoryPath) up to the return of fs.readdir.
ProcessDirectory(listing, readdirOk) ==
    /\ dir.state = "idle"
    /\ dir' = IF readdirOk
              THEN [dir EXCEPT !.state = "running",
                               !.directoryPath = DirectoryPath,
                               !.listing = listing]
              ELSE [dir EXCEPT !.state = "threw",
                               !.directoryPath = DirectoryPath,
                               !.err = ErrRead]
    /\ UNCHANGED <<app, indexHandle, index, req, clock, files, batch, parse, loc, pinecone>>

\* What one turn of the loop met: stat, isFile, and what parseDocument did.
Turn(statOk, isFile, parsed, lib, p) ==
    [statOk |-> statOk, isFile |-> isFile, parsed |-> parsed, lib |-> lib,
     threw |-> p.threw, err |-> p.err, content |-> p.content,
     metadata |-> p.metadata]

\* A loop whose catch rethrows: the first failing entry ends the call.
DirAfter_AbortOnError(d, statOk, readOk, lib) ==
    LET file == d.listing[d.next]
        filePath == PathJoin(d.directoryPath, file.name)
        p == IF readOk THEN ParseDocument(file.content, filePath, lib)
             ELSE ParseThrew(ErrRead)
    IN  IF ~statOk
        THEN [d EXCEPT !.state = "threw", !.err = ErrRead,
                       !.turns = Append(@, Turn(FALSE, FALSE, FALSE, NoLib,
                                                ParseThrew(ErrRead)))]
        ELSE IF ~file.isFile
        THEN [d EXCEPT !.next = @ + 1,
                       !.turns = Append(@, Turn(TRUE, FALSE, FALSE, NoLib,
                                                ParseThrew("")))]
        ELSE IF p.threw
        THEN [d EXCEPT !.state = "threw", !.err = p.err,
                       !.turns = Append(@, Turn(TRUE, TRUE, TRUE, lib, p))]
        ELSE [d EXCEPT !.next = @ + 1,
                       !.processedDocs =
                           Append(@, [id |-> filePath, content |-> p.content,
                                      metadata |-> p.metadata]),
                       !.turns = Append(@, Turn(TRUE, TRUE, TRUE, lib, p))]

\* A loop that records an entry for a file even when its extraction raised.
DirAfter_KeepFailed(d, statOk, readOk, lib) ==
    LET file == d.listing[d.next]
        filePath == PathJoin(d.directoryPath, file.name)
        p == IF readOk THEN ParseDocument(file.content, filePath, lib)
             ELSE ParseThrew(ErrRead)
    IN  IF ~statOk
        THEN [d EXCEPT !.next = @ + 1,
                       !.turns = Append(@, Turn(FALSE, FALSE, FALSE, NoLib,
                                                ParseThrew(ErrRead)))]
        ELSE IF ~file.isFile
        THEN [d EXCEPT !.next = @ + 1,
                       !.turns = Append(@, Turn(TRUE, FALSE, FALSE, NoLib,
                                                ParseThrew("")))]
        ELSE [d EXCEPT !.next = @ + 1,
                       !.processedDocs =
                           Append(@, [id |-> filePath, content |-> p.content,
                                      metadata |-> p.metadata]),
                       !.turns = Append(@, Turn(TRUE, TRUE, TRUE, lib, p))]

\* processDirectory after one turn of the loop on files[next].
DirAfter(d, statOk, readOk, lib) ==
    LET file == d.listing[d.next]
        filePath == PathJoin(d.directoryPath, file.name)
        p == IF readOk THEN ParseDocument(file.content, filePath, lib)
             ELSE ParseThrew(ErrRead)
    IN  IF ~statOk
        THEN [d EXCEPT !.next = @ + 1,
                       !.turns = Append(@, Turn(FALSE, FALSE, FALSE, NoLib,
                                                ParseThrew(ErrRead)))]
        ELSE IF ~file.isFile
        THEN [d EXCEPT !.next = @ + 1,
                       !.turns = Append(@, Turn(TRUE, FALSE, FALSE, NoLib,
                                                ParseThrew("")))]
        ELSE IF p.threw
        THEN [d EXCEPT !.next = @ + 1,
                       !.turns = Append(@, Turn(TRUE, TRUE, TRUE, lib, p))]
        ELSE [d EXCEPT !.next = @ + 1,
                       !.processedDocs =
                           Append(@, [id |-> filePath, content |-> p.content,
                                      metadata |-> p.metadata]),
                       !.turns = Append(@, Turn(TRUE, TRUE, TRUE, lib, p))]

DirTurn(statOk, readOk, lib) ==
    /\ dir.state = "running"
    /\ dir.next <= Len(dir.listing)
    /\ LET file == dir.listing[dir.next]
           reads == statOk /\ file.isFile
       IN  /\ IF reads THEN TRUE ELSE readOk
           /\ lib \in IF reads /\ readOk
                      THEN LibOutcomes(ToLowerCase(ChunkExt(file.name)),
                                       file.content)
                      ELSE {NoLib}
    /\ dir' = DirAfter(dir, statOk, readOk, lib)
    /\ UNCHANGED <<app, indexHandle, index, req, clock, files, batch, parse, loc, pinecone>>

\* return processedDocs
DirReturn ==
    /\ dir.state = "running"
    /\ dir.next > Len(dir.listing)
    /\ dir' = [dir EXCEPT !.state = "returned", !.result = dir.processedDocs]
    /\ UNCHANGED <<app, indexHandle, index, req, clock, files, batch, parse, loc, pinecone>>

DirNext ==
    \/ \E l \in Listings, ok \in BOOLEAN : ProcessDirectory(l, ok)
    \/ \E statOk, readOk \in BOOLEAN, lib \in AllLibOutcomes :
          DirTurn(statOk, readOk, lib)
    \/ DirReturn

DirSpec == Init /\ [][DirNext]_vars

\* --------------------------------- one document, both extractor entry points
\* The file names and contents a document is given with: every supported
\* type, an upper-case extension, an unsupported type and no extension;
\* content that is and is not JSON.
ParseNames == {"x.txt", "x.TXT", "x.json", "x.pdf", "x.csv", "x.bin", "x"}

ParseContents == {<<>>, <<"x">>, <<"1">>, <<" ", "1">>}

\* A document arrives: its content as a string for parseContentFromString,
\* and the same content in a file of that name for parseDocument.
GiveDocument(name, content) ==
    /\ parse.state = "idle"
    /\ parse' = [parse EXCEPT !.state = "given", !.fileName = <<name>>,
                              !.content = content]
    /\ UNCHANGED <<app, indexHandle, index, req, clock, files, batch, dir, loc, pinecone>>

\* What a call of an extractor entry point left: the library's answer and
\* the ParsedDocument or the error.
Extracted(readOk, lib, p) == [readOk |-> readOk, lib |-> lib, out |-> p]

\* parseContentFromString(content, fileName) returns or throws.
ParseContentFromStringReturns(lib) ==
    /\ parse.state = "given"
    /\ parse.viaString = <<>>
    /\ lib \in LibOutcomes(ToLowerCase(ExtName(parse.fileName)), parse.content)
    /\ parse' = [parse EXCEPT !.viaString =
                    Extracted(TRUE, lib,
                              ParseContentFromString(parse.content,
                                                     parse.fileName, lib))]
    /\ UNCHANGED <<app, indexHandle, index, req, clock, files, batch, dir, loc, pinecone>>

\* parseDocument(filePath) returns or throws.
ParseDocumentReturns(readOk, lib) ==
    /\ parse.state = "given"
    /\ parse.viaPath = <<>>
    /\ lib \in IF readOk
               THEN LibOutcomes(ToLowerCase(ExtName(parse.fileName)),
                                parse.content)
               ELSE {NoLib}
    /\ parse' = [parse EXCEPT !.viaPath =
                    Extracted(readOk, lib,
                              IF readOk
                              THEN ParseDocument(parse.content,
                                                 PathJoin(DirectoryPath,
                                                          parse.fileName[1]),
                                                 lib)
                              ELSE ParseThrew(ErrRead))]
    /\ UNCHANGED <<app, indexHandle, index, req, clock, files, batch, dir, loc, pinecone>>

ExtractNext ==
    \/ \E n \in ParseNames, c \in ParseContents : GiveDocument(n, c)
    \/ \E lib \in AllLibOutcomes : ParseContentFromStringReturns(lib)
    \/ \E readOk \in BOOLEAN, lib \in AllLibOutcomes :
          ParseDocumentReturns(readOk, lib)

ExtractSpec == Init /\ [][ExtractNext]_vars

\* One ingestion request beside the direct calls of the extractor: every
\* place a ParsedDocument's metadata is made or extended.
SourceNext ==
    \/ ExtractNext
    \/ StartupNext
    \/ \E u \in Urls : ProcessDocumentFromS3(1, u)
    \/ \E o \in S3Outcomes : GetObjectReturns(1, o)
    \/ \E lib \in AllLibOutcomes : ParseReturns(1, lib)
    \/ \E p \in ProviderOutcomes : EmbeddingsReturn(1, p)
    \/ \E ok \in BOOLEAN : UpsertReturns(1, ok)

SourceSpec == Init /\ [][SourceNext]_vars

\* ------------------------------------------------- locator to storage key
LocProtocols == {"s3:", "https:"}

\* bucket as host, virtual-hosted hosts, website endpoint, custom domain,
\* and the storage endpoint itself (path-style)
LocHosts ==
    { <<"bucket">>,
      <<"bucket", "s3", "us-east-1", "domain">>,
      <<"bucket", "s3", "amazonaws", "com">>,
      <<"bucket", "s3-website-us-east-1", "amazonaws", "com">>,
      <<"custom", "domain">>,
      <<"s3", "amazonaws", "com">>,
      <<"s3", "us-east-1", "amazonaws", "com">> }

LocPaths ==
    { <<>>,
      <<"/">>,
      <<"/", "file.pdf">>,
      <<"/", "path", "/", "to", "/", "file.pdf">>,
      <<"/", "bucket", "/", "file.pdf">>,
      <<"/", "bucket", "/", "path", "/", "to", "/", "file.pdf">> }

\* What new URL(s) can hand back: an https: URL always has a path.
LocUrls ==
    { u \in { MkUrl(p, h, n) : p \in LocProtocols, h \in LocHosts, n \in LocPaths } :
        u.protocol = "https:" => u.pathname # <<>> }
        \cup {NoUrl}

\* The key is resolved, by S3Service.downloadFileContentFromUrl or inline by
\* the processDocumentFromS3 that stages a temporary file, and getObject is
\* awaited.
Locate(l, u, inline) ==
    LET k == IF inline THEN TempResolveKey(u) ELSE ResolveKey(u)
    IN  IF k.threw
        THEN [l EXCEPT !.state = "threw", !.inline = inline, !.url = u,
                       !.err = k.err]
        ELSE [l EXCEPT !.state = "reading", !.inline = inline, !.url = u,
                       !.key = k.key, !.reads = @ + 1]

DownloadFileContentFromUrl(u, inline) ==
    /\ loc.state = "idle"
    /\ loc' = Locate(loc, u, inline)
    /\ UNCHANGED <<app, indexHandle, index, req, clock, files, batch, parse, dir, pinecone>>

\* getObject returns: the content, the key and path.basename(s3Key).
Located(l, o) ==
    CASE o.kind = "error" -> [l EXCEPT !.state = "threw", !.err = ErrS3]
      [] o.kind = "nobody" -> [l EXCEPT !.state = "threw", !.err = ErrEmptyBody]
      [] OTHER -> [l EXCEPT !.state = "returned", !.content = o.body,
                            !.originalFileName = Basename(l.key)]

LocGetObjectReturns(o) ==
    /\ loc.state = "reading"
    /\ loc' = Located(loc, o)
    /\ UNCHANGED <<app, indexHandle, index, req, clock, files, batch, parse, dir, pinecone>>

LocNext ==
    \/ \E u \in LocUrls, inline \in BOOLEAN : DownloadFileContentFromUrl(u, inline)
    \/ \E o \in S3Outcomes : LocGetObjectReturns(o)

LocSpec == Init /\ [][LocNext]_vars

\* ------------------------------------------------------------------ claims
Pipeline ==
    <<"getObject", "extract", "embedBatch", "provider", "upsertVectors",
      "index.upsert">>

Rank(c) == CHOOSE k \in 1..Len(Pipeline) : Pipeline[k] = c

Has(calls, c) == \E k \in 1..Len(calls) : calls[k] = c

Count(calls, c) == Cardinality({k \in 1..Len(calls) : calls[k] = c})

InOrder(calls) ==
    \A a, b \in 1..Len(calls) : a < b => Rank(calls[a]) < Rank(calls[b])

Finished(r) == r.pc \in {"done", "failed"}

InFlight(r) ==
    r.pc \in {"writing", "reading", "embedding", "upserting", "unlinking"}

\* C1: a call that allocated a temporary file path and has finished, by a
\* return or by any failure, has attempted fs.unlink on that path and on no
\* other.
C1_TempFileRemoved ==
    \A i \in TempReqs :
        LET r == req[i]
        IN  /\ Finished(r) /\ r.tempFilePath # <<>> =>
                  Has(r.unlinked, r.tempFilePath)
            /\ \A k \in 1..Len(r.unlinked) : r.unlinked[k] = r.tempFilePath

C1_Witness ==
    \E i, j \in TempReqs :
        /\ req[i].pc = "failed"
        /\ req[i].err = ErrUnsupported
        /\ req[i].unlinked = <<req[i].tempFilePath>>
        /\ req[j].pc = "done"
        /\ req[j].unlinked = <<req[j].tempFilePath>>

\* C2: whatever fs.unlink answers, a call whose try block ended by a return
\* ends returning the documentId, and a call whose try block ended by
\* throwing E ends throwing E.
C2_OutcomeKept ==
    \A i \in TempReqs :
        LET r == req[i]
        IN  Finished(r) /\ r.unlinked # <<>> =>
                IF r.pending = "return"
                THEN r.pc = "done" /\ r.documentId = r.key /\ r.err = ""
                ELSE r.pc = "failed" /\ r.err = r.pendingErr /\ r.err # ErrUnlink

C2_Witness ==
    \E i, j \in TempReqs :
        /\ req[i].pc = "done"
        /\ ~req[i].unlinkOk
        /\ req[j].pc = "failed"
        /\ req[j].err = ErrEmbeddingFailed
        /\ ~req[j].unlinkOk

\* C8: two calls in flight never hold the same temporary file path.
C8_DistinctTempPaths ==
    \A i, j \in TempReqs :
        /\ i # j
        /\ InFlight(req[i])
        /\ InFlight(req[j])
        => req[i].tempFilePath # req[j].tempFilePath

\* C3: within one request the collaborators are invoked in the order
\* retrieve, extract, embed, upsert: the extractor only once retrieval has
\* returned content, the embedding batch only once extraction has returned,
\* upsertVectors only once the batch has returned at least one record, a
\* documentId only once upsertVectors has returned; a request that failed at
\* a stage has invoked no collaborator of a later stage.
C3_StageOrder ==
    \A i \in Reqs :
        LET r == req[i]
            c == r.calls
        IN  /\ InOrder(c)
            /\ Has(c, "extract") =>
                  /\ Has(c, "getObject")
                  /\ r.pc \notin {"idle", "retrieving"}
                  /\ r.err \notin {ErrS3, ErrEmptyBody}
            /\ Has(c, "embedBatch") =>
                  Has(c, "extract") /\ r.pc # "extracting"
            /\ Has(c, "provider") => Has(c, "embedBatch")
            /\ Has(c, "upsertVectors") =>
                  /\ Has(c, "embedBatch")
                  /\ r.embedReturned
                  /\ Len(r.vectorsToUpsert) >= 1
            /\ Has(c, "index.upsert") => Has(c, "upsertVectors")
            /\ r.pc = "done" =>
                  Has(c, "upsertVectors") /\ r.upsertOutcome = "returned"
            /\ r.pc = "failed" /\ r.err \in {ErrInvalidUrl, ErrNoKey} => c = <<>>
            /\ r.pc = "failed" /\ r.err \in {ErrS3, ErrEmptyBody} =>
                  c = <<"getObject">>
            /\ r.pc = "failed" /\ r.err \in {ErrProvider, ErrEmbeddingFailed} =>
                  ~Has(c, "upsertVectors")

C3_Witness ==
    \E i \in Reqs : req[i].pc = "done" /\ req[i].calls = Pipeline

\* C4: a request whose locator resolves to a key, whose retrieved content is
\* empty and whose extraction derives no metadata beyond the source name ends
\* failed with the EmptyDocument error.
C4_EmptyDocument ==
    \A i \in Reqs :
        LET r == req[i]
        IN  /\ Finished(r)
            /\ r.key # <<>>
            /\ Has(r.calls, "extract")
            /\ r.rawEmpty
            /\ DOMAIN r.metadata \subseteq {"source"}
            => r.pc = "failed" /\ r.err = ErrEmptyDocument

\* C5: when the embedding batch returns zero records the request fails with
\* EmbeddingFailed and upsertVectors is never invoked.
C5_ZeroRecords ==
    \A i \in Reqs :
        LET r == req[i]
        IN  r.embedReturned /\ Len(r.vectorsToUpsert) = 0 =>
                /\ r.pc = "failed"
                /\ r.err = ErrEmbeddingFailed
                /\ ~Has(r.calls, "upsertVectors")
                /\ ~Has(r.calls, "index.upsert")
                /\ r.sent = <<>>

C5_Witness ==
    \E i \in Reqs :
        /\ req[i].embedReturned
        /\ Len(req[i].vectorsToUpsert) = 0
        /\ req[i].content = <<" ">>

\* C6: a request that ends done handed exactly one record to upsertVectors,
\* whose id is the key resolved from the locator and whose metadata is the
\* extracted metadata plus s3_url and original_filename; the documentId
\* returned is that key.
C6_DoneRecord ==
    \A i \in Reqs :
        LET r == req[i]
            key == StripSlash(r.url.pathname)
        IN  r.pc = "done" =>
                /\ Len(r.sent) = 1
                /\ r.sent[1].id = key
                /\ r.documentId = key
                /\ DOMAIN r.sent[1].metadata =
                      DOMAIN r.metadata \cup {"s3_url", "original_filename"}
                /\ \A k \in DOMAIN r.metadata : r.sent[1].metadata[k] = r.metadata[k]
                /\ r.sent[1].metadata["s3_url"] = r.url
                /\ r.sent[1].metadata["original_filename"] = Basename(key)

C6_Witness ==
    \E i \in Reqs :
        /\ req[i].pc = "done"
        /\ req[i].documentId = <<"a", "/", "x.txt">>
        /\ req[i].sent[1].metadata["original_filename"] = <<"x.txt">>

\* C7: no collaborator is invoked twice in one request, and a failure the
\* index reports on upsert ends the request failed with that error.
C7_NoRetry ==
    \A i \in Reqs :
        LET r == req[i]
        IN  /\ \A c \in {"getObject", "provider", "upsertVectors", "index.upsert"} :
                  Count(r.calls, c) <= 1
            /\ r.issued /\ ~r.indexOk => r.pc = "failed" /\ r.err = ErrUpsert

C7_Witness ==
    \E i \in Reqs :
        /\ req[i].pc = "failed"
        /\ req[i].err = ErrUpsert
        /\ ~req[i].indexOk
        /\ Count(req[i].calls, "index.upsert") = 1

AllWhitespace(c) == \A k \in 1..Len(c) : c[k] \in Whitespace

Kept(docs) == SelectSeq(docs, LAMBDA d : ~AllWhitespace(d.content))

\* C9: a batch the provider never failed on returns one record for exactly
\* the documents whose content is neither empty nor all whitespace, in input
\* order, each with the document's id and metadata and a vector that is not
\* empty; a blank document raises nothing.
C9_BatchRecords ==
    /\ batch.state = "returned" =>
          LET kept == Kept(batch.docs)
          IN  /\ batch.failedAt = 0
              /\ Len(batch.result) = Len(kept)
              /\ \A k \in 1..Len(kept) :
                    /\ batch.result[k].id = kept[k].id
                    /\ batch.result[k].metadata = kept[k].metadata
                    /\ batch.result[k].values > 0
    /\ batch.state = "threw" =>
          ~AllWhitespace(batch.docs[batch.next].content)

C9_Witness ==
    /\ batch.state = "returned"
    /\ Len(batch.docs) = 2
    /\ batch.docs[1].content = <<" ">>
    /\ batch.docs[2].content = <<" ", "x">>
    /\ Len(batch.result) = 1

\* C10: when the provider fails on the k-th document the call raises the
\* provider's error, returns no record, and the provider is invoked for no
\* document after the k-th.
C10_BatchAborts ==
    batch.failedAt > 0 =>
        /\ batch.state = "threw"
        /\ batch.err = ErrProvider
        /\ batch.result = <<>>
        /\ \A k \in 1..Len(batch.calls) : batch.calls[k] <= batch.failedAt

C10_Witness ==
    /\ batch.state = "threw"
    /\ batch.failedAt = 2
    /\ Len(batch.docs) = 2
    /\ Len(batch.embeddedDocs) = 1

\* The entries processDirectory is to return, from entry k on: one per
\* regular file whose stat and extraction succeeded, in listing order.
RECURSIVE ExpectedDocs(_, _)
ExpectedDocs(d, k) ==
    IF k > Len(d.listing) THEN <<>>
    ELSE (IF d.listing[k].isFile /\ d.turns[k].statOk /\ ~d.turns[k].threw
          THEN << [id |-> DirectoryPath \o <<"/", d.listing[k].name>>,
                   content |-> d.turns[k].content,
                   metadata |-> d.turns[k].metadata] >>
          ELSE <<>>) \o ExpectedDocs(d, k + 1)

\* C11: once the directory is listed processDirectory never raises; it visits
\* every entry, extracts every regular file whatever happened to the entries
\* before it, and returns, in listing order, one entry per regular file whose
\* extraction succeeded, with the file's full path as id.
C11_DirIsolation ==
    /\ dir.state = "threw" => dir.turns = <<>>
    /\ dir.state = "returned" =>
          /\ Len(dir.turns) = Len(dir.listing)
          /\ \A k \in 1..Len(dir.listing) :
                dir.turns[k].parsed <=>
                    (dir.listing[k].isFile /\ dir.turns[k].statOk)
          /\ dir.result = ExpectedDocs(dir, 1)

C11_Witness ==
    /\ dir.state = "returned"
    /\ Len(dir.listing) = 2
    /\ dir.listing[1].isFile
    /\ dir.turns[1].threw
    /\ dir.listing[2].isFile
    /\ Len(dir.result) = 1
    /\ dir.result[1].id = <<"/", "docs", "/", dir.listing[2].name>>

AllRegular(d) ==
    \A k \in 1..Len(d.listing) : d.listing[k].isFile /\ d.turns[k].statOk

\* The k-th file is malformed for its type: pdf-parse or papaparse rejects
\* it or reports errors, or JSON.parse does not accept it.
Malformed(d, k) ==
    LET e == ToLowerCase(ChunkExt(d.listing[k].name))
        t == d.turns[k]
    IN  /\ t.err # ErrRead
        /\ \/ e = ".pdf" /\ ~t.lib.ok
           \/ e = ".csv" /\ (~t.lib.ok \/ t.lib.errors # <<>>)
           \/ e = ".json" /\ ~JsonValid(d.listing[k].content)

WellFormed(d, k) ==
    /\ ToLowerCase(ChunkExt(d.listing[k].name)) \in {".pdf", ".csv", ".txt", ".json"}
    /\ ~d.turns[k].threw
    /\ ~Malformed(d, k)

\* C12 as claimed: over N regular files of which exactly one is malformed
\* (.pdf, .csv or .json) and the others are well formed, the call returns
\* N-1 entries.
C12_OneMalformed ==
    dir.state = "returned" /\ AllRegular(dir) =>
        \A k \in 1..Len(dir.listing) :
            /\ Malformed(dir, k)
            /\ \A j \in 1..Len(dir.listing) : j # k => WellFormed(dir, j)
            => Len(dir.result) = Len(dir.listing) - 1

\* C12 amended: over N regular files of which exactly one makes parseDocument
\* raise, the call returns N-1 entries; a malformed .pdf or .csv does not
\* make it raise and is returned as an entry.
C12_OneRaises ==
    dir.state = "returned" /\ AllRegular(dir) =>
        /\ \A k \in 1..Len(dir.listing) :
              /\ dir.turns[k].threw
              /\ \A j \in 1..Len(dir.listing) : j # k => ~dir.turns[j].threw
              => Len(dir.result) = Len(dir.listing) - 1
        /\ \A k \in 1..Len(dir.listing) :
              /\ Malformed(dir, k)
              /\ ToLowerCase(ChunkExt(dir.listing[k].name)) \in {".pdf", ".csv"}
              => /\ ~dir.turns[k].threw
                 /\ \E j \in 1..Len(dir.result) :
                       dir.result[j].id = PathJoin(DirectoryPath, dir.listing[k].name)

C12_Witness ==
    /\ dir.state = "returned"
    /\ Len(dir.listing) = 2
    /\ AllRegular(dir)
    /\ dir.listing[1].name = "x.json"
    /\ dir.turns[1].threw
    /\ dir.listing[2].name = "x.pdf"
    /\ Malformed(dir, 2)
    /\ Len(dir.result) = 1

Supported == {".pdf", ".csv", ".txt", ".json"}

ParseExt == ToLowerCase(ExtName(parse.fileName))

ViaStringDone == parse.viaString # <<>>

\* parseDocument was called on a file it could read
ViaPathDone == parse.viaPath # <<>> /\ parse.viaPath.readOk

\* C13: for a name whose lower-cased extension is not supported,
\* parseDocument throws 'Unsupported file type' and returns nothing, while
\* parseContentFromString returns the content unchanged with only source in
\* the metadata; a supported extension in upper case is not rejected by
\* either.
C13_UnsupportedType ==
    /\ ViaPathDone =>
          (parse.viaPath.out.threw /\ parse.viaPath.out.err = ErrUnsupported)
              <=> ParseExt \notin Supported
    /\ ViaStringDone /\ ParseExt \notin Supported =>
          /\ ~parse.viaString.out.threw
          /\ parse.viaString.out.content = parse.content
          /\ parse.viaString.out.metadata = [source |-> parse.fileName]
    /\ ViaStringDone /\ ViaPathDone /\ parse.fileName = <<"x.TXT">> =>
          /\ parse.viaString.out = Parsed(parse.content, [source |-> <<"x.TXT">>])
          /\ parse.viaPath.out = Parsed(parse.content, [source |-> <<"x.TXT">>])

C13_Witness ==
    /\ parse.fileName = <<"x.bin">>
    /\ parse.content = <<"x">>
    /\ ViaPathDone
    /\ parse.viaPath.out.threw
    /\ ViaStringDone
    /\ parse.viaString.out.content = <<"x">>

\* The call met a malformed document: pdf-parse or papaparse threw, or
\* papaparse reported errors.
MalformedFor(call) ==
    \/ ParseExt = ".pdf" /\ ~call.lib.ok
    \/ ParseExt = ".csv" /\ (~call.lib.ok \/ call.lib.errors # <<>>)

HasErrorWord(text) == \E k \in 1..Len(text) : text[k] \in {"error", "Error"}

Placeholder(call) ==
    /\ ~call.out.threw
    /\ call.out.content # <<>>
    /\ HasErrorWord(call.out.content)

\* C14 as claimed: a malformed .pdf or .csv makes neither entry point raise
\* and yields non-empty text holding the word "error".
C14_MalformedPlaceholder ==
    /\ ViaStringDone /\ MalformedFor(parse.viaString) =>
          Placeholder(parse.viaString)
    /\ ViaPathDone /\ MalformedFor(parse.viaPath) =>
          Placeholder(parse.viaPath)

\* The call followed the soft-failure rule of the code: a library that threw
\* gives placeholder text ending in its message; a .csv parsed with errors
\* gives the rows papaparse returned and the errors under parseErrors.
SoftFailed(call) ==
    /\ ~call.out.threw
    /\ call.out.metadata.source = parse.fileName
    /\ IF ~call.lib.ok
       THEN /\ Placeholder(call)
            /\ SubSeq(call.out.content, 4, Len(call.out.content)) = call.lib.message
            /\ DOMAIN call.out.metadata = {"source"}
       ELSE /\ call.out.content = JoinRows(call.lib.rows)
            /\ call.out.metadata.parseErrors = call.lib.errors

\* C14 amended: a .pdf or .csv on which the parsing library throws makes
\* neither entry point raise and yields non-empty placeholder text holding
\* "Error"; a .csv papaparse parses with errors does not raise either and
\* yields the parsed rows with the errors in metadata.parseErrors.
C14_SoftFailure ==
    /\ ViaStringDone /\ MalformedFor(parse.viaString) => SoftFailed(parse.viaString)
    /\ ViaPathDone /\ MalformedFor(parse.viaPath) => SoftFailed(parse.viaPath)

C14_Witness ==
    /\ parse.fileName = <<"x.pdf">>
    /\ ViaStringDone
    /\ ~parse.viaString.lib.ok
    /\ parse.viaString.out.content =
          <<"Failed to parse PDF content. ", "Error", ": ", "bad XRef">>
    /\ ViaPathDone
    /\ ~parse.viaPath.lib.ok
    /\ parse.viaPath.out.content =
          <<"Failed to parse PDF file. ", "Error", ": ", "bad XRef">>

\* C15: parseContentFromString never throws for .txt, .json or an
\* unsupported extension: .txt and unsupported return the content as given,
\* .json that parses returns the value serialised again (here a number
\* without the whitespace around it), .json that does not parse returns the
\* input as given.
C15_StringNeverRaises ==
    ViaStringDone /\ ParseExt \notin {".pdf", ".csv"} =>
        /\ ~parse.viaString.out.threw
        /\ parse.viaString.out.content =
              IF ParseExt = ".json" /\ JsonValid(parse.content)
              THEN Trim(parse.content)
              ELSE parse.content

C15_Witness ==
    /\ parse.fileName = <<"x.json">>
    /\ parse.content = <<" ", "1">>
    /\ ViaStringDone
    /\ parse.viaString.out.content = <<"1">>

\* Both calls degraded to placeholder text
BothPlaceholder ==
    /\ ~parse.viaString.lib.ok
    /\ Placeholder(parse.viaString)
    /\ Placeholder(parse.viaPath)

\* C16: on a supported extension, with the parsing library answering both
\* calls alike, parseDocument on a file holding the content and
\* parseContentFromString on the content end alike: both return the same
\* text and metadata, or both degrade to placeholder text, and neither
\* throws where the other returns.
C16_SameOutcome ==
    /\ ViaStringDone
    /\ ViaPathDone
    /\ ParseExt \in Supported
    /\ parse.viaString.lib = parse.viaPath.lib
    => /\ parse.viaPath.out.threw = parse.viaString.out.threw
       /\ parse.viaPath.out.metadata = parse.viaString.out.metadata
       /\ \/ parse.viaPath.out.content = parse.viaString.out.content
          \/ BothPlaceholder

SourceIs(metadata, name) ==
    "source" \in DOMAIN metadata /\ metadata.source = name

\* C17: the metadata of every ParsedDocument either entry point returns,
\* soft-failed parses included, has source equal to the file name (the
\* basename of the path for parseDocument), and every record the orchestrator
\* passes to upsertVectors still has source equal to the basename of the
\* resolved key.
C17_SourceIsFileName ==
    /\ ViaStringDone /\ ~parse.viaString.out.threw =>
          SourceIs(parse.viaString.out.metadata, parse.fileName)
    /\ parse.viaPath # <<>> /\ ~parse.viaPath.out.threw =>
          SourceIs(parse.viaPath.out.metadata, parse.fileName)
    /\ \A k \in 1..Len(req[1].sent) :
          SourceIs(req[1].sent[k].metadata,
                   Basename(StripSlash(req[1].url.pathname)))

C17_Witness ==
    /\ parse.fileName = <<"x.pdf">>
    /\ ViaPathDone
    /\ ~parse.viaPath.lib.ok
    /\ parse.viaPath.out.metadata.source = <<"x.pdf">>
    /\ ViaStringDone
    /\ parse.viaString.lib.ok
    /\ "pageCount" \in DOMAIN parse.viaString.out.metadata
    /\ Len(req[1].sent) = 1
    /\ req[1].sent[1].metadata.source = <<"x.txt">>
    /\ req[1].sent[1].metadata.original_filename = <<"x.txt">>

FilePdfPath == <<"/", "path", "/", "to", "/", "file.pdf">>

\* C18: a locator of any host and scheme whose path is /path/to/file.pdf
\* resolves to the key path/to/file.pdf, in particular the virtual-hosted
\* https://bucket.s3.us-east-1.domain, s3://bucket and the custom domain;
\* every resolved key is the URL path without its leading slash, and the
\* file name returned with it is the last segment of the key.
C18_KeyIsPath ==
    /\ loc.state # "idle" /\ loc.url.valid /\ loc.url.pathname = FilePdfPath =>
          /\ loc.state # "threw" \/ loc.err \in {ErrS3, ErrEmptyBody}
          /\ loc.key = <<"path", "/", "to", "/", "file.pdf">>
          /\ loc.state = "returned" => loc.originalFileName = <<"file.pdf">>
    /\ loc.state \in {"reading", "returned"} =>
          <<"/">> \o loc.key = loc.url.pathname
    /\ loc.state = "returned" =>
          /\ Len(loc.originalFileName) = 1
          /\ loc.originalFileName[1] = loc.key[Len(loc.key)]

C18_Witness ==
    /\ loc.state = "returned"
    /\ loc.url = MkUrl("https:", <<"custom", "domain">>, FilePdfPath)
    /\ loc.key = <<"path", "/", "to", "/", "file.pdf">>
    /\ loc.originalFileName = <<"file.pdf">>

PathStyleHosts ==
    { <<"s3", "amazonaws", "com">>, <<"s3", "us-east-1", "amazonaws", "com">> }

\* The key of the object a locator names: for a path-style URL the path
\* after the bucket segment, otherwise the path after its leading slash.
ObjectKey(u) ==
    IF u.protocol = "https:" /\ u.hostname \in PathStyleHosts
    THEN SubSeq(u.pathname, 4, Len(u.pathname))
    ELSE SubSeq(u.pathname, 2, Len(u.pathname))

\* C19: a resolved key is the key of the object the locator names, whatever
\* the shape of the URL: for a path-style URL (host is the storage endpoint,
\* path is /bucket/key) it is the key without the bucket segment.
C19_SameKeyAnyShape ==
    loc.state \in {"reading", "returned"} /\ Len(loc.url.pathname) >= 4 =>
        loc.key = ObjectKey(loc.url)

\* No key can be derived from the locator of request r.
NoKey(r) == ~r.url.valid \/ r.url.pathname \in {<<>>, <<"/">>}

\* C20: a request whose locator does not parse, or whose path is empty or
\* "/", fails with the URL error or 'Could not determine S3 key from URL.'
\* without any call to object storage, the extractor, the embedding provider
\* or the index; and only such a request fails with one of these errors.
C20_InvalidLocator ==
    \A i \in Reqs :
        LET r == req[i]
        IN  r.pc # "idle" =>
              /\ NoKey(r) =>
                    /\ r.pc = "failed"
                    /\ r.err = IF r.url.valid THEN ErrNoKey ELSE ErrInvalidUrl
                    /\ r.calls = <<>>
                    /\ r.sent = <<>>
              /\ r.err \in {ErrNoKey, ErrInvalidUrl} => NoKey(r)

C20_Witness ==
    \E i, j \in Reqs :
        /\ req[i].pc = "failed"
        /\ req[i].err = ErrInvalidUrl
        /\ req[j].pc = "failed"
        /\ req[j].err = ErrNoKey
        /\ req[j].url.pathname = <<"/">>


\* C21: every record handed to index.upsert, by any request, carries a vector
\* whose length is the dimension the index is created with (1536); no empty or
\* differently sized vector is sent, and none is held by the index.
C21_VectorLength ==
    /\ \A i \in Reqs : \A k \in 1..Len(req[i].sent) :
          /\ req[i].sent[k].values = indexDimension
          /\ pinecone.createRequested =>
                req[i].sent[k].values = pinecone.createArgs.dimension
    /\ \A id \in DOMAIN index : index[id].values = indexDimension

C21_Witness ==
    /\ pinecone.created
    /\ \A i \in Reqs :
          /\ req[i].issued
          /\ Len(req[i].sent) = 1
          /\ req[i].sent[1].values = pinecone.createArgs.dimension
    /\ \E i \in Reqs : req[i].pc = "done"
    /\ DOMAIN index # {}


\* C22: the process-document endpoint never raises: a request that failed at
\* any stage is answered with the failure message and no documentId, and an
\* answer carries a documentId only when processDocumentFromS3 returned one,
\* which is the storage key resolved from the request's locator.
C22_EndpointAnswers ==
    \A i \in Reqs :
        LET r == req[i]
        IN  /\ ~r.response.raised
            /\ Finished(r) <=> r.response # NoResponse
            /\ r.pc = "failed" =>
                  /\ r.response.message = MsgFailed
                  /\ "documentId" \notin DOMAIN r.response
            /\ "documentId" \in DOMAIN r.response =>
                  /\ r.pc = "done"
                  /\ r.response.message = MsgStarted
                  /\ r.response.documentId = r.documentId
                  /\ r.response.documentId = ResolveKey(r.url).key
                  /\ r.response.documentId # <<>>

C22_Witness ==
    /\ req[1].pc = "failed"
    /\ req[1].err = ErrUpsert
    /\ DOMAIN req[1].response = {"raised", "message"}
    /\ req[2].pc = "done"
    /\ req[2].response.documentId = req[2].key


UpsertCalled(r) == Has(r.calls, "upsertVectors")

\* C23: onModuleInit asks for the index to be created only after describeIndex
\* failed, with the embedding dimension and the cosine metric; once it has
\* returned the handle is set, stays set, and every later upsertVectors issues
\* index.upsert; when createIndex fails onModuleInit raises, the handle stays
\* unset and no request is served.
C23_Provisioning ==
    /\ [](/\ pinecone.createRequested =>
                /\ pinecone.described = "failed"
                /\ pinecone.createArgs.dimension = placeholderDimension
                /\ pinecone.createArgs.metric = "cosine"
          /\ pinecone.created => pinecone.createRequested
          /\ app = "listening" =>
                /\ indexHandle
                /\ ~pinecone.raised
                /\ pinecone.described = "ok" \/ pinecone.created
          /\ \A i \in Reqs : UpsertCalled(req[i]) =>
                /\ req[i].issued
                /\ Has(req[i].calls, "index.upsert")
          /\ pinecone.raised <=> app = "failed"
          /\ pinecone.raised =>
                /\ ~indexHandle
                /\ pinecone.createRequested /\ ~pinecone.created
                /\ \A i \in Reqs : req[i].pc = "idle")
    /\ [][/\ indexHandle => indexHandle'
          /\ pinecone.createRequested => pinecone.createRequested'
          /\ app = "failed" => app' = "failed"]_vars

C23_Witness ==
    /\ pinecone.described = "failed"
    /\ pinecone.created
    /\ indexHandle
    /\ \E i \in Reqs :
          /\ req[i].pc = "done"
          /\ req[i].issued
          /\ req[i].key \in DOMAIN index


\* C24: a request ends done only if index.upsert was issued for its record and
\* the index accepted it, so the record is in the index; upsertVectors never
\* returns normally without having called index.upsert, the uninitialised
\* handle included.
C24_DoneIsWritten ==
    \A i \in Reqs :
        /\ req[i].pc = "done" =>
              /\ req[i].issued
              /\ Has(req[i].calls, "index.upsert")
              /\ req[i].indexOk
              /\ Len(req[i].sent) = 1
              /\ req[i].sent[1].id \in DOMAIN index
              /\ index[req[i].sent[1].id].values = req[i].sent[1].values
        /\ req[i].upsertOutcome = "returned" => req[i].issued /\ req[i].indexOk
        /\ UpsertCalled(req[i]) => indexHandle

C24_Witness ==
    /\ req[1].pc = "done"
    /\ req[1].key \in DOMAIN index
    /\ req[2].pc = "failed"
    /\ req[2].upsertOutcome = "threw"
    /\ req[2].key \notin DOMAIN index


Written(i) == req[i].pc = "done"

WrittenKeys == {req[i].key : i \in {j \in Reqs : Written(j)}}

\* C25: the index holds exactly one record for each storage key a finished
\* request wrote, whatever the order of the requests: the id of a record is the
\* key its object was read under, so requests for different keys never share
\* an id, and a write under a key already present replaces that record and
\* leaves every other record as it was.
C25_OneRecordPerKey ==
    /\ [](/\ DOMAIN index = WrittenKeys
          /\ \A id \in DOMAIN index :
                /\ "s3_url" \in DOMAIN index[id].metadata
                /\ StripSlash(index[id].metadata.s3_url.pathname) = id
                /\ \E i \in Reqs :
                      /\ Written(i)
                      /\ req[i].key = id
                      /\ req[i].sent[1].metadata = index[id].metadata
          /\ \A i, j \in Reqs :
                Written(i) /\ Written(j) =>
                    (req[i].sent[1].id = req[j].sent[1].id
                        <=> req[i].key = req[j].key))
    /\ [][\A i \in Reqs :
            req[i].pc = "upserting" /\ req'[i].pc = "done" =>
                /\ DOMAIN index' = DOMAIN index \cup {req[i].key}
                /\ index'[req[i].key].metadata = req[i].sent[1].metadata
                /\ \A id \in DOMAIN index \ {req[i].key} : index'[id] = index[id]]_vars

C25_Witness ==
    /\ Written(1) /\ Written(2)
    /\ req[1].url # req[2].url
    /\ req[1].key = req[2].key
    /\ Cardinality(DOMAIN index) = 1
    /\ index[req[1].key].metadata.s3_url = req[1].url
    /\ req[1].sent[1].metadata # req[2].sent[1].metadata

====
